---- MODULE Spec2Model ----
(***************************************************************************)
(* Model of the SSR module loader of vite                                  *)
(* (packages/vite/src/node/ssr/ssrModuleLoader.ts): ssrLoadModule, the     *)
(* in-flight table pendingModules, the pending-dependency table            *)
(* pendingImports, and instantiateModule with the linkage functions        *)
(* ssrImport / ssrDynamicImport it builds for the executed module body.    *)
(*                                                                         *)
(* JavaScript is single threaded: every action below is one synchronous    *)
(* stretch of code between two suspension points (await).  Which suspended *)
(* continuation runs next is left open.                                    *)
(***************************************************************************)
EXTENDS Naturals, Integers, Sequences, FiniteSets, TLC

\* ------------------------------------------------------------------ bounds
MaxReq == 2        \* top-level ssrLoadModule calls issued by the environment
MaxInval == 1      \* external invalidations of module records
MaxBody == 1       \* statements in one transformed module body
MaxStatic == 2     \* static imports in one module body (static specification)
MaxUrl == 4        \* characters of a module URL (specifier resolution)
MaxDep == 3        \* characters of a dynamic import specifier
MaxSources == 2    \* entries of map.sources

URLs == {"/a.js", "/b.js", "/c.js"}

NoUrl == "-"

\* One slot per engine run that can exist at a time; the code keeps at most
\* one run per URL, the extra slot lets a second one be represented.
Slots == 1 .. (Cardinality(URLs) + 1)

\* ------------------------------------------------------------------ state
VARIABLES
  code,            \* transform collaborator: URL -> body of the transformed module
  absent,          \* URLs for which transformRequest answers null
  mods,            \* moduleGraph records: URL -> [ssrModule, ssrTransformResult]
  ssrModules,      \* heap of namespace objects, by identity 1..Len
  closures,        \* per executed body: url, urlStack, pendingDeps, captured imports
  pendingModules,  \* Map<url, Promise>: URL -> slot of the run whose promise it holds, 0 = none
  pendingImports,  \* Map<url, string[]>: URL -> closure whose pendingDeps array it holds, 0 = none
  runs,            \* instantiateModule activations, by slot
  dyns,            \* ssrImport activations started by ssrDynamicImport and not awaited by the body
  reqs,            \* top-level ssrLoadModule calls
  hist,            \* counters observed by the properties
  heap,            \* the properties of the objects handed to module code
  resolution,      \* a call of the specifier resolution of ssrDynamicImport
  sourcemap        \* a call of injectSourcesContent: the map, the reads in flight

vars == <<code, absent, mods, ssrModules, closures, pendingModules,
          pendingImports, runs, dyns, reqs, hist, heap, resolution, sourcemap>>

\* ---------------------------------------------------------------- helpers
Range(s) == { s[i] : i \in DOMAIN s }

\* Array.prototype.indexOf: the first index holding x, 0 when there is none.
IndexOf(s, x) ==
  IF x \in Range(s) THEN CHOOSE i \in DOMAIN s : s[i] = x /\ \A j \in 1 .. (i - 1) : s[j] # x
  ELSE 0

RemoveAt(s, i) == [ j \in 1 .. (Len(s) - 1) |-> IF j < i THEN s[j] ELSE s[j + 1] ]

\* pendingDeps.splice(pendingDeps.indexOf(dep), 1); an index of -1 counts
\* from the end of the array, so a missing dep removes the last element.
Splice(s, x) ==
  IF s = <<>> THEN s
  ELSE IF IndexOf(s, x) = 0 THEN RemoveAt(s, Len(s))
  ELSE RemoveAt(s, IndexOf(s, x))

\* The statements of a transformed module body that reach the loader.
Ops == ({"imp", "dyn"} \X URLs) \cup {<<"throw", NoUrl>>}

StaticOps == {"imp"} \X URLs

SeqsUpTo(S, n) == UNION { [1 .. k -> S] : k \in 0 .. n }

\* An error object: who created it (the loader's own `failed to load module`
\* error, or whatever a body raised), for which module, in which of its runs.
NoError == [kind |-> "none", url |-> NoUrl, id |-> 0]

FreeRun ==
  [url |-> NoUrl, stack |-> <<>>, pc |-> "free", ip |-> 0, clo |-> 0,
   aw |-> 0, val |-> 0, e |-> NoError, dirty |-> FALSE]

\* What the record of a URL looked like when it was last invalidated: the
\* namespaces and transform calls that existed, and whether a load was in flight.
NoInval == [on |-> FALSE, n |-> 0, x |-> 0, idle |-> FALSE]

IdleReq ==
  [url |-> NoUrl, st |-> "idle", aw |-> 0, val |-> 0, e |-> NoError,
   gen |-> 0, inv |-> NoInval]

NullMod == [ssrModule |-> 0, ssrTransformResult |-> FALSE]

IsSettled(run) == run.pc \in {"ok", "err", "errCaught"}

IsActive(run) == run.pc \notin {"free", "ok", "err", "errCaught"}

HasFreeSlot(rs) == \E s \in Slots : rs[s].pc = "free"

FreeSlotOf(rs) == CHOOSE s \in Slots : rs[s].pc = "free" /\ \A t \in Slots : rs[t].pc = "free" => s <= t

\* ----------------------------------------------------------- ssrLoadModule
\* (mutant: the lookup misses the entry)
PendingGetMiss(pm, u) == 0

\* const pending = pendingModules.get(url)
PendingGet(pm, u) == pm[u]

\* instantiateModule runs synchronously up to `await ensureEntryFromUrl`.
StartRun(u, stack) == [FreeRun EXCEPT !.url = u, !.stack = stack, !.pc = "entry"]

\* (mutant: the promise of a new run is not registered in pendingModules)
LoadModuleNoSet(rs, pm, u, stack) ==
  IF PendingGet(pm, u) # 0
  THEN [rs |-> rs, pm |-> pm, t |-> PendingGet(pm, u), started |-> FALSE]
  ELSE LET s == FreeSlotOf(rs) IN
       [rs |-> [rs EXCEPT ![s] = StartRun(u, stack)], pm |-> pm, t |-> s, started |-> TRUE]

\* ssrLoadModule(u, .., stack): the slot of the promise the caller gets (t),
\* and the tables after the call.
LoadModule(rs, pm, u, stack) ==
  IF PendingGet(pm, u) # 0
  THEN [rs |-> rs, pm |-> pm, t |-> PendingGet(pm, u), started |-> FALSE]
  ELSE LET s == FreeSlotOf(rs) IN
       [rs |-> [rs EXCEPT ![s] = StartRun(u, stack)],
        pm |-> [pm EXCEPT ![u] = s], t |-> s, started |-> TRUE]

CanLoad(rs, pm, u) == PendingGet(pm, u) # 0 \/ HasFreeSlot(rs)

\* ------------------------------------------------- promise settlement
\* The promise of run r settles: every continuation awaiting it is queued
\* with the outcome.
WakeRuns(rs, r, ok, e) ==
  [ s \in Slots |->
      IF rs[s].pc = "await" /\ rs[s].aw = r
      THEN [rs[s] EXCEPT !.pc = IF ok THEN "readyOk" ELSE "readyErr", !.aw = 0, !.e = e]
      ELSE rs[s] ]

WakeDyns(ds, r, ok) ==
  { IF d.st = "await" /\ d.aw = r
    THEN [d EXCEPT !.st = IF ok THEN "readyOk" ELSE "readyErr", !.aw = 0]
    ELSE d : d \in ds }

WakeReqs(rq, r, ok, v, e) ==
  [ i \in DOMAIN rq |->
      IF rq[i].st = "wait" /\ rq[i].aw = r
      THEN [rq[i] EXCEPT !.st = IF ok THEN "ok" ELSE "err", !.aw = 0, !.val = v, !.e = e]
      ELSE rq[i] ]

Fulfil(rs, r, v) == WakeRuns([rs EXCEPT ![r].pc = "ok", ![r].val = v, ![r].aw = 0], r, TRUE, NoError)

Reject(rs, r, e) == WakeRuns([rs EXCEPT ![r].pc = "err", ![r].e = e, ![r].aw = 0], r, FALSE, e)

\* --------------------------------------------------------- instantiateModule
\* (mutant: the record's instance is not looked at)
HasInstanceNever(m) == FALSE

\* if (mod.ssrModule) ...
HasInstance(m) == m.ssrModule # 0

\* (mutant: a transform result is assumed to be cached)
HasTransformAlways(m) == TRUE

\* mod.ssrTransformResult || (await transformRequest(url, server, { ssr: true }))
HasTransform(m) == m.ssrTransformResult

\* const ssrModule = {...}; mod.ssrModule = ssrModule; urlStack = urlStack.concat(url);
\* const pendingDeps = []  -- the stub namespace and the closure of the linkage functions.
NewModule(u) == [url |-> u, frozen |-> FALSE, keys |-> {}]

\* (mutant: the run keeps the path it was given)
NewClosureNoConcat(u, stack) ==
  [url |-> u, urlStack |-> stack, pendingDeps |-> <<>>, got |-> {}, x |-> 0]

NewClosure(u, stack) ==
  [url |-> u, urlStack |-> Append(stack, u), pendingDeps |-> <<>>, got |-> {}, x |-> 0]

\* const isCircular = (url) => urlStack.includes(url)
IsCircular(stack, u) == u \in Range(stack)

\* (mutant: a pending import is never seen as a cycle)
CycleSeenNever(c, dep) == FALSE

\* pendingImports.get(dep)?.some(isCircular)
CycleSeen(c, dep) ==
  /\ pendingImports[dep] # 0
  /\ \E p \in Range(closures[pendingImports[dep]].pendingDeps) :
        IsCircular(closures[c].urlStack, p)

\* pendingDeps.push(dep); if (pendingDeps.length == 1) pendingImports.set(url, pendingDeps)
PushDep(cl, c, dep) == [cl EXCEPT ![c].pendingDeps = Append(@, dep)]

SetPending(pi, cl, c) ==
  IF Len(cl[c].pendingDeps) = 1 THEN [pi EXCEPT ![cl[c].url] = c] ELSE pi

\* if (pendingDeps.length == 1) pendingImports.delete(url)
\* else pendingDeps.splice(pendingDeps.indexOf(dep), 1)
PopDep(cl, c, dep) ==
  IF Len(cl[c].pendingDeps) = 1 THEN cl
  ELSE [cl EXCEPT ![c].pendingDeps = Splice(@, dep)]

ClearPending(pi, cl, c) ==
  IF Len(cl[c].pendingDeps) = 1 THEN [pi EXCEPT ![cl[c].url] = 0] ELSE pi

\* return moduleGraph.urlToModuleMap.get(dep)?.ssrModule  (0: undefined)
ImportValue(d) == mods[d].ssrModule

\* Reading export k of namespace n: the accessor reads the module's binding now.
ReadExport(n, k) == IF k \in ssrModules[n].keys THEN closures[n].x ELSE 0

CurOp(r) == code[runs[r].url][runs[r].ip]

AtOp(r, kind) ==
  /\ runs[r].pc = "body"
  /\ runs[r].ip <= Len(code[runs[r].url])
  /\ CurOp(r)[1] = kind

Bump(f, u) == [f EXCEPT ![u] = @ + 1]

\* (mutant: the loader's error does not name the module)
LoadErrorUnnamed(u) == [kind |-> "load", url |-> NoUrl, id |-> hist.starts[u]]

\* throw new Error(`failed to load module for ssr: ${url}`)
LoadError(u) == [kind |-> "load", url |-> u, id |-> hist.starts[u]]

\* The error object a module body raises while it executes.
BodyError(u) == [kind |-> "body", url |-> u, id |-> hist.starts[u]]

\* e.message: the loader's own error names the URL; ssrRewriteStacktrace and
\* the rethrow leave the message of any error as it is.
Message(e) ==
  IF e.kind = "load" THEN <<"failed to load module for ssr: ", e.url>>
  ELSE IF e.kind = "resolve" THEN <<"Cannot find module ", e.url>>
  ELSE <<"raised by the body of ", e.url>>

\* server.config.logger.error(`Error when evaluating SSR module ${url}: ...`, { error: e })
LogError(h, u, e) == [h EXCEPT !.logged = @ \cup {<<u, e>>}]

\* One more instantiateModule call for u, when the load started one.
CountStart(h, L, u) == IF L.started THEN [h EXCEPT !.starts = Bump(@, u)] ELSE h

\* Bookkeeping of the properties: done[u] is the namespace a top-level call
\* for u resolved to, while u was not invalidated since the run producing it
\* started; left holds the stubs of the runs that failed.
OnFulfil(h, r, v) ==
  IF ~runs[r].dirty /\ \E j \in DOMAIN reqs : reqs[j].st = "wait" /\ reqs[j].aw = r
  THEN [h EXCEPT !.done[runs[r].url] = v]
  ELSE h

OnReject(h, r) ==
  IF runs[r].clo # 0 THEN [h EXCEPT !.left = @ \cup {runs[r].clo}] ELSE h

\* ------------------------------------------------------------------ actions
\* A caller outside the loader calls ssrLoadModule(u, server) (urlStack = []).
Request(i, u) ==
  /\ reqs[i].st = "idle"
  /\ \A j \in 1 .. (i - 1) : reqs[j].st # "idle"
  /\ CanLoad(runs, pendingModules, u)
  /\ LET L == LoadModule(runs, pendingModules, u, <<>>)
         tr == L.rs[L.t]
         h1 == CountStart(hist, L, u)
         q == [IdleReq EXCEPT !.url = u, !.gen = h1.starts[u], !.inv = hist.invAt[u]]
     IN /\ runs' = L.rs
        /\ pendingModules' = L.pm
        /\ reqs' = [reqs EXCEPT ![i] =
              IF tr.pc = "ok" THEN [q EXCEPT !.st = "ok", !.val = tr.val]
              ELSE IF IsSettled(tr) THEN [q EXCEPT !.st = "err", !.e = tr.e]
              ELSE [q EXCEPT !.st = "wait", !.aw = L.t]]
        /\ hist' = IF tr.pc = "ok" /\ ~tr.dirty THEN [h1 EXCEPT !.done[u] = tr.val] ELSE h1
  /\ UNCHANGED <<resolution, sourcemap, heap, code, absent, mods, ssrModules, closures, pendingImports, dyns>>

\* instantiateModule resumes after `await moduleGraph.ensureEntryFromUrl(url)`
\* and finds the record's instance: if (mod.ssrModule) return mod.ssrModule
EntryCached(r) ==
  /\ runs[r].pc = "entry"
  /\ HasInstance(mods[runs[r].url])
  /\ LET v == mods[runs[r].url].ssrModule
     IN /\ runs' = Fulfil(runs, r, v)
        /\ dyns' = WakeDyns(dyns, r, TRUE)
        /\ reqs' = WakeReqs(reqs, r, TRUE, v, NoError)
        /\ hist' = OnFulfil(hist, r, v)
  /\ UNCHANGED <<resolution, sourcemap, heap, code, absent, mods, ssrModules, closures, pendingModules, pendingImports>>

\* ... finds no instance and no cached transform: await transformRequest(url)
EntryTransform(r) ==
  /\ runs[r].pc = "entry"
  /\ ~HasInstance(mods[runs[r].url])
  /\ ~HasTransform(mods[runs[r].url])
  /\ runs' = [runs EXCEPT ![r].pc = "transform"]
  /\ hist' = [hist EXCEPT !.xform = Bump(@, runs[r].url)]
  /\ UNCHANGED <<resolution, sourcemap, heap, code, absent, mods, ssrModules, closures, pendingModules, pendingImports, dyns, reqs>>

\* (mutant: the stub is created but not stored on the record)
PublishUnstored(r, cached) ==
  LET u == runs[r].url
      n == Len(ssrModules) + 1
  IN /\ ssrModules' = Append(ssrModules, NewModule(u))
     /\ closures' = Append(closures, NewClosure(u, runs[r].stack))
     /\ mods' = [mods EXCEPT ![u] = [ssrModule |-> 0, ssrTransformResult |-> cached]]
     /\ runs' = [runs EXCEPT ![r].pc = "body", ![r].ip = 1, ![r].clo = n]

\* The stub is created and stored on the record; the run then waits for
\* injectSourcesContent before the body starts.
Publish(r, cached) ==
  LET u == runs[r].url
      n == Len(ssrModules) + 1
  IN /\ ssrModules' = Append(ssrModules, NewModule(u))
     /\ closures' = Append(closures, NewClosure(u, runs[r].stack))
     /\ mods' = [mods EXCEPT ![u] = [ssrModule |-> n, ssrTransformResult |-> cached]]
     /\ runs' = [runs EXCEPT ![r].pc = "body", ![r].ip = 1, ![r].clo = n]

\* ... finds no instance but a cached transform (mod.ssrTransformResult)
EntryPublish(r) ==
  /\ runs[r].pc = "entry"
  /\ ~HasInstance(mods[runs[r].url])
  /\ HasTransform(mods[runs[r].url])
  /\ Publish(r, TRUE)
  /\ UNCHANGED <<resolution, sourcemap, heap, code, absent, pendingModules, pendingImports, dyns, reqs, hist>>

\* transformRequest answered with a result (and cached it on the record)
TransformDone(r) ==
  /\ runs[r].pc = "transform"
  /\ runs[r].url \notin absent
  /\ Publish(r, TRUE)
  /\ UNCHANGED <<resolution, sourcemap, heap, code, absent, pendingModules, pendingImports, dyns, reqs, hist>>

\* transformRequest answered null: throw new Error(`failed to load module for ssr: ${url}`)
TransformNull(r) ==
  /\ runs[r].pc = "transform"
  /\ runs[r].url \in absent
  /\ runs' = Reject(runs, r, LoadError(runs[r].url))
  /\ dyns' = WakeDyns(dyns, r, FALSE)
  /\ reqs' = WakeReqs(reqs, r, FALSE, 0, LoadError(runs[r].url))
  /\ UNCHANGED <<resolution, sourcemap, heap, code, absent, mods, ssrModules, closures, pendingModules, pendingImports, hist>>

\* (mutant: the body does not await the import and goes on)
AwaitRunDetached(run, tr, t) == [run EXCEPT !.ip = @ + 1]

\* The outcome seen by a continuation that awaits the promise of run t.
AwaitRun(run, tr, t) ==
  IF tr.pc = "ok" THEN [run EXCEPT !.pc = "readyOk"]
  ELSE IF IsSettled(tr) THEN [run EXCEPT !.pc = "readyErr", !.e = tr.e]
  ELSE [run EXCEPT !.pc = "await", !.aw = t]

AwaitDyn(d, tr, t) ==
  IF tr.pc = "ok" THEN [d EXCEPT !.st = "readyOk"]
  ELSE IF IsSettled(tr) THEN [d EXCEPT !.st = "readyErr"]
  ELSE [d EXCEPT !.st = "await", !.aw = t]

\* Specifiers of packages outside the module graph, and the ones that
\* tryNodeResolve finds.
Packages == {"vue", "missing"}

Installed == {"vue"}

\* dep[0]
FirstChar(dep) == IF dep \in URLs THEN "/" ELSE IF dep = "vue" THEN "v" ELSE "m"

\* dep[0] !== '.' && dep[0] !== '/'
IsExternal(dep) == FirstChar(dep) # "." /\ FirstChar(dep) # "/"

\* (mutant: every specifier resolves)
tryNodeResolveAlways(id) == id

\* tryNodeResolve(id, importer, resolveOptions, false): the resolved id, or
\* nothing (NoUrl).
tryNodeResolve(id) == IF id \in Installed THEN id ELSE NoUrl

\* throw Error(`Cannot find module '${id}'` + ...)
ResolveError(id) == [kind |-> "resolve", url |-> id, id |-> 0]

\* The Proxy nodeRequire returns for a package.
ExternalValue == 0 - 1

\* The body starts executing when its first statement (or its end) is reached.
CountBody(r) ==
  IF runs[r].ip = 1 THEN [hist EXCEPT !.body = Bump(@, runs[r].url)] ELSE hist

\* `await __vite_ssr_import__(dep)` of a local dep that is not seen as a
\* cycle: the wait is recorded and ssrLoadModule(dep, .., urlStack) is awaited.
BodyImport(r) ==
  /\ AtOp(r, "imp")
  /\ LET c == runs[r].clo
         d == CurOp(r)[2]
         cl1 == PushDep(closures, c, d)
         L == LoadModule(runs, pendingModules, d, closures[c].urlStack)
     IN /\ ~IsExternal(d)
        /\ ~CycleSeen(c, d)
        /\ CanLoad(runs, pendingModules, d)
        /\ closures' = cl1
        /\ pendingImports' = SetPending(pendingImports, cl1, c)
        /\ pendingModules' = L.pm
        /\ runs' = [L.rs EXCEPT ![r] = AwaitRun(@, L.rs[L.t], L.t)]
        /\ hist' = CountStart(CountBody(r), L, d)
  /\ UNCHANGED <<resolution, sourcemap, heap, code, absent, mods, ssrModules, dyns, reqs>>

\* ... of a dep seen as a cycle: ssrImport returns the record's current
\* namespace at once, without awaiting.
BodyImportCycle(r) ==
  /\ AtOp(r, "imp")
  /\ LET c == runs[r].clo
         d == CurOp(r)[2]
     IN /\ ~IsExternal(d)
        /\ CycleSeen(c, d)
        /\ closures' = [closures EXCEPT ![c].got = @ \cup {<<d, ImportValue(d)>>}]
        /\ runs' = [runs EXCEPT ![r].ip = @ + 1]
        /\ hist' = CountBody(r)
  /\ UNCHANGED <<resolution, sourcemap, heap, code, absent, mods, ssrModules, pendingModules, pendingImports, dyns, reqs>>

\* `await __vite_ssr_import__(dep)` of a package that resolves: ssrImport
\* returns nodeRequire(dep, mod.file, resolveOptions) and touches no table.
BodyExternal(r) ==
  /\ AtOp(r, "imp")
  /\ LET c == runs[r].clo
         d == CurOp(r)[2]
     IN /\ IsExternal(d)
        /\ tryNodeResolve(d) # NoUrl
        /\ closures' = [closures EXCEPT ![c].got = @ \cup {<<d, ExternalValue>>}]
        /\ runs' = [runs EXCEPT ![r].ip = @ + 1]
        /\ hist' = CountBody(r)
  /\ UNCHANGED <<resolution, sourcemap, heap, code, absent, mods, ssrModules, pendingModules, pendingImports, dyns, reqs>>

\* ssrImport resumes after `await ssrLoadModule(dep)` fulfilled, removes the
\* wait and returns moduleGraph.urlToModuleMap.get(dep)?.ssrModule to the body.
ImportOk(r) ==
  /\ runs[r].pc = "readyOk"
  /\ LET c == runs[r].clo
         d == CurOp(r)[2]
     IN /\ closures' = [PopDep(closures, c, d) EXCEPT ![c].got = @ \cup {<<d, ImportValue(d)>>}]
        /\ pendingImports' = ClearPending(pendingImports, closures, c)
        /\ runs' = [runs EXCEPT ![r].pc = "body", ![r].ip = @ + 1]
  /\ UNCHANGED <<resolution, sourcemap, heap, code, absent, mods, ssrModules, pendingModules, dyns, reqs, hist>>

\* (mutant: the catch block raises an error of its own)
RethrownWrapped(r) == BodyError(runs[r].url)

\* catch (e) { ...; throw e }: the error the awaited load rejected with is
\* thrown on, the same object.
Rethrown(r) == runs[r].e

\* The error ssrRewriteStacktrace raises when it fails.
RewriterError == [kind |-> "rewriter", url |-> NoUrl, id |-> 0]

\* (mutant: the failure of the rewriter escapes the catch block)
CaughtErrorMasked(e, rewritten) == IF rewritten THEN e ELSE RewriterError

\* try { e.stack = ssrRewriteStacktrace(e, moduleGraph) } catch {} ... throw e
CaughtError(e, rewritten) == e

\* The catch block for error e in the run of u: the stack is rewritten unless
\* the rewriter throws, then the error is logged.
CatchBlock(h, u, e, rewritten) ==
  LogError(IF rewritten THEN h ELSE [h EXCEPT !.unrewritten = @ \cup {<<u, e>>}],
           u, CaughtError(e, rewritten))

\* `await ssrLoadModule(dep)` rejected: ssrImport rethrows, the body's await
\* throws, the catch block logs and rethrows.
ImportErr(r) ==
  /\ runs[r].pc = "readyErr"
  /\ \E rewritten \in BOOLEAN :
       LET e == CaughtError(Rethrown(r), rewritten)
       IN /\ runs' = Reject(runs, r, e)
          /\ reqs' = WakeReqs(reqs, r, FALSE, 0, e)
          /\ hist' = OnReject(CatchBlock(hist, runs[r].url, Rethrown(r), rewritten), r)
  /\ dyns' = WakeDyns(dyns, r, FALSE)
  /\ UNCHANGED <<resolution, sourcemap, heap, code, absent, mods, ssrModules, closures, pendingModules, pendingImports>>

\* `await __vite_ssr_import__(dep)` of a package that does not resolve:
\* resolveId throws, the body's await throws, the catch block logs and rethrows.
BodyExternalMissing(r) ==
  /\ AtOp(r, "imp")
  /\ IsExternal(CurOp(r)[2])
  /\ tryNodeResolve(CurOp(r)[2]) = NoUrl
  /\ \E rewritten \in BOOLEAN :
       LET e == CaughtError(ResolveError(CurOp(r)[2]), rewritten)
       IN /\ runs' = Reject(runs, r, e)
          /\ reqs' = WakeReqs(reqs, r, FALSE, 0, e)
          /\ hist' = OnReject(CatchBlock(CountBody(r), runs[r].url, ResolveError(CurOp(r)[2]), rewritten), r)
  /\ dyns' = WakeDyns(dyns, r, FALSE)
  /\ UNCHANGED <<resolution, sourcemap, heap, code, absent, mods, ssrModules, closures, pendingModules, pendingImports>>

\* `__vite_ssr_dynamic_import__(dep)` whose promise the body does not await:
\* ssrImport runs up to its await and the body goes on.
BodyDynamic(r) ==
  /\ AtOp(r, "dyn")
  /\ LET c == runs[r].clo
         d == CurOp(r)[2]
         cl1 == PushDep(closures, c, d)
         L == LoadModule(runs, pendingModules, d, closures[c].urlStack)
         task == [clo |-> c, ix |-> runs[r].ip, dep |-> d, st |-> "await", aw |-> 0]
     IN IF ~IsExternal(d) /\ CycleSeen(c, d)
        THEN /\ runs' = [runs EXCEPT ![r].ip = @ + 1]
             /\ hist' = CountBody(r)
             /\ UNCHANGED <<closures, pendingImports, pendingModules, dyns>>
        ELSE /\ ~IsExternal(d)
             /\ CanLoad(runs, pendingModules, d)
             /\ closures' = cl1
             /\ pendingImports' = SetPending(pendingImports, cl1, c)
             /\ pendingModules' = L.pm
             /\ runs' = [L.rs EXCEPT ![r].ip = @ + 1]
             /\ dyns' = dyns \cup {AwaitDyn(task, L.rs[L.t], L.t)}
             /\ hist' = CountStart(CountBody(r), L, d)
  /\ UNCHANGED <<resolution, sourcemap, heap, code, absent, mods, ssrModules, reqs>>

\* ssrImport of a dynamic import resumes after its await fulfilled.
DynOk(t) ==
  /\ t \in dyns
  /\ t.st = "readyOk"
  /\ closures' = PopDep(closures, t.clo, t.dep)
  /\ pendingImports' = ClearPending(pendingImports, closures, t.clo)
  /\ dyns' = dyns \ {t}
  /\ UNCHANGED <<resolution, sourcemap, heap, code, absent, mods, ssrModules, pendingModules, runs, reqs, hist>>

\* ... rejected: ssrImport rethrows past the bookkeeping, nobody awaits it.
DynErr(t) ==
  /\ t \in dyns
  /\ t.st = "readyErr"
  /\ dyns' = dyns \ {t}
  /\ UNCHANGED <<resolution, sourcemap, heap, code, absent, mods, ssrModules, closures, pendingModules, pendingImports, runs, reqs, hist>>

\* The body raises: catch (e) { ...logger.error(...); throw e }
BodyThrow(r) ==
  /\ AtOp(r, "throw")
  /\ \E rewritten \in BOOLEAN :
       LET e == CaughtError(BodyError(runs[r].url), rewritten)
       IN /\ runs' = Reject(runs, r, e)
          /\ reqs' = WakeReqs(reqs, r, FALSE, 0, e)
          /\ hist' = OnReject(CatchBlock(CountBody(r), runs[r].url, BodyError(runs[r].url), rewritten), r)
  /\ dyns' = WakeDyns(dyns, r, FALSE)
  /\ UNCHANGED <<resolution, sourcemap, heap, code, absent, mods, ssrModules, closures, pendingModules, pendingImports>>

\* The exports the body defines after its imports:
\* Object.defineProperty(__vite_ssr_exports__, "x", { get(){ return x } })
DefineExports(m) == IF m.frozen THEN m ELSE [m EXCEPT !.keys = @ \cup {"x"}]

\* return Object.freeze(ssrModule)
Freeze(m) == [m EXCEPT !.frozen = TRUE]

\* The namespace the finished run resolves to.
Returned(r) == runs[r].clo

\* The body runs to its end: exports are defined, the namespace is frozen
\* and the promise of instantiateModule is fulfilled with it.
BodyEnd(r) ==
  /\ runs[r].pc = "body"
  /\ runs[r].ip > Len(code[runs[r].url])
  /\ LET c == runs[r].clo
     IN /\ ssrModules' = [ssrModules EXCEPT ![c] = Freeze(DefineExports(@))]
        /\ closures' = [closures EXCEPT ![c].x = 1]
        /\ runs' = Fulfil(runs, r, Returned(r))
        /\ dyns' = WakeDyns(dyns, r, TRUE)
        /\ reqs' = WakeReqs(reqs, r, TRUE, Returned(r), NoError)
        /\ hist' = OnFulfil(CountBody(r), r, Returned(r))
  /\ UNCHANGED <<resolution, sourcemap, heap, code, absent, mods, pendingModules, pendingImports>>

\* modulePromise.catch(() => { pendingImports.delete(url) })
CatchHandler(r) ==
  /\ runs[r].pc = "err"
  /\ pendingImports' = [pendingImports EXCEPT ![runs[r].url] = 0]
  /\ runs' = [runs EXCEPT ![r].pc = "errCaught"]
  /\ UNCHANGED <<resolution, sourcemap, heap, code, absent, mods, ssrModules, closures, pendingModules, dyns, reqs, hist>>

\* (mutant: the entry is left in the table)
DeletePendingKept(pm, u) == pm

\* pendingModules.delete(url)
DeletePending(pm, u) == [pm EXCEPT ![u] = 0]

\* .then(() => { pendingModules.delete(url) })
ThenHandler(r) ==
  /\ runs[r].pc \in {"ok", "errCaught"}
  /\ pendingModules' = DeletePending(pendingModules, runs[r].url)
  /\ runs' = [runs EXCEPT ![r] = FreeRun]
  /\ UNCHANGED <<resolution, sourcemap, heap, code, absent, mods, ssrModules, closures, pendingImports, dyns, reqs, hist>>

\* The module graph invalidates the record of u: both cached fields are cleared.
Invalidate(u) ==
  /\ hist.inval < MaxInval
  /\ mods[u] # NullMod
  /\ mods' = [mods EXCEPT ![u] = NullMod]
  /\ runs' = [s \in Slots |-> IF runs[s].url = u THEN [runs[s] EXCEPT !.dirty = TRUE] ELSE runs[s]]
  /\ hist' = [hist EXCEPT !.inval = @ + 1, !.done[u] = 0,
                          !.invAt[u] = [on |-> TRUE, n |-> Len(ssrModules), x |-> hist.xform[u],
                                        idle |-> pendingModules[u] = 0]]
  /\ UNCHANGED <<resolution, sourcemap, heap, code, absent, ssrModules, closures, pendingModules, pendingImports, dyns, reqs>>

\* ------------------------------------------------------- namespace objects
\* The objects module code works on: "A" is the ssrModule of the module being
\* instantiated, "B" is what it got for a dependency (a local namespace, or
\* the raw exports of an external package).  A property is absent, a data
\* property, an accessor reading a binding of the defining module, or an
\* accessor reading through to a property of another object.
ObjIds == {"A", "B"}

Keys == {"x", "foo", "default", "__esModule"}

Undefined == <<"undefined", "-">>

ObjRef(o) == <<"object", o>>

Val(v) == <<"value", v>>

Absent == [t |-> "none", v |-> Undefined, src |-> "-", k |-> "-", en |-> FALSE]

\* { value: v } / an assignment: a data property
Data(v, en) == [Absent EXCEPT !.t = "data", !.v = v, !.en = en]

\* { enumerable: true, configurable: true, get(){ return b } }
Binding(b) == [Absent EXCEPT !.t = "bind", !.k = b, !.en = TRUE]

\* { enumerable: true, configurable: true, get(){ return sourceModule[key] } }
Through(o, k) == [Absent EXCEPT !.t = "thru", !.src = o, !.k = k, !.en = TRUE]

EmptyObject == [k \in Keys |-> Absent]

NoWrapper == [on |-> FALSE, target |-> "-", defaultExport |-> Undefined]

NoHeap ==
  [objs |-> [o \in ObjIds |-> EmptyObject], binds |-> [b \in {"x", "foo", "dep.x"} |-> Undefined],
   pc |-> "off", wrapper |-> NoWrapper, applied |-> FALSE, keysAt |-> {}, defaultAt |-> Absent,
   marked |-> FALSE, defaulted |-> FALSE]

\* obj[k]: an accessor is computed at the read.
RECURSIVE GetProp(_, _, _)
GetProp(h, o, k) ==
  LET d == h.objs[o][k]
  IN IF d.t = "data" THEN d.v
     ELSE IF d.t = "bind" THEN h.binds[d.k]
     ELSE IF d.t = "thru" THEN GetProp(h, d.src, d.k)
     ELSE Undefined

HasOwn(h, o, k) == h.objs[o][k].t # "none"

Truthy(v) == v # Undefined

\* for (const key in sourceModule)
EnumKeys(h, o) == { k \in Keys : HasOwn(h, o, k) /\ h.objs[o][k].en }

\* (mutant: the values are copied when the function is called)
ssrExportAllCopy(h, a, sourceModule) ==
  [h EXCEPT !.objs[a] =
     [k \in Keys |-> IF k \in EnumKeys(h, sourceModule) /\ k # "default"
                     THEN Data(GetProp(h, sourceModule, k), TRUE) ELSE @[k]]]

\* function ssrExportAll(sourceModule)
ssrExportAll(h, a, sourceModule) ==
  [h EXCEPT !.objs[a] =
     [k \in Keys |-> IF k \in EnumKeys(h, sourceModule) /\ k # "default"
                     THEN Through(sourceModule, k) ELSE @[k]]]

\* (mutant: default is synthesized whenever the body defined none)
SynthesizeAlways(h, a) ==
  LET h1 == [h EXCEPT !.objs[a]["__esModule"] = Data(Val("true"), FALSE)]
  IN IF ~HasOwn(h1, a, "default")
     THEN [h1 EXCEPT !.objs[a]["default"] = Data(ObjRef(a), FALSE)]
     ELSE h1

\* if (!ssrModule.__esModule) { Object.defineProperty(ssrModule, '__esModule', { value: true })
\*   if (!Object.getOwnPropertyDescriptor(ssrModule, 'default'))
\*     Object.defineProperty(ssrModule, 'default', { value: ssrModule }) }
Synthesize(h, a) ==
  IF Truthy(GetProp(h, a, "__esModule")) THEN h
  ELSE LET h1 == [h EXCEPT !.objs[a]["__esModule"] = Data(Val("true"), FALSE)]
       IN IF ~HasOwn(h1, a, "default")
          THEN [h1 EXCEPT !.objs[a]["default"] = Data(ObjRef(a), FALSE)]
          ELSE h1

\* (mutant: no interop, default is always the property of the raw exports)
WrapPlain(h, r) ==
  [on |-> TRUE, target |-> r, defaultExport |-> GetProp(h, r, "default")]

\* const defaultExport = mod.__esModule ? mod.default : mod; return new Proxy(mod, ...)
Wrap(h, r) ==
  [on |-> TRUE, target |-> r,
   defaultExport |-> IF Truthy(GetProp(h, r, "__esModule")) THEN GetProp(h, r, "default")
                     ELSE ObjRef(r)]

\* get(mod, prop) { if (prop === 'default') return defaultExport; return mod[prop] }
ProxyGet(h, prop) ==
  IF prop = "default" THEN h.wrapper.defaultExport ELSE GetProp(h, h.wrapper.target, prop)

\* The body of A marks its namespace, as every transformed module with an
\* import or export statement does first.
BodyMark ==
  /\ heap.pc = "body" /\ ~heap.applied
  /\ ~HasOwn(heap, "A", "__esModule")
  /\ heap' = [heap EXCEPT !.objs["A"]["__esModule"] = Data(Val("true"), FALSE), !.marked = TRUE]

\* __vite_ssr_exports__.default = v
BodySetDefault(v) ==
  /\ heap.pc = "body" /\ ~heap.applied
  /\ heap' = [heap EXCEPT !.objs["A"]["default"] = Data(Val(v), TRUE), !.defaulted = TRUE]

\* const x = v; Object.defineProperty(__vite_ssr_exports__, "x", { ..., get(){ return x } })
BodyDefine(v) ==
  /\ heap.pc = "body" /\ ~heap.applied
  /\ ~HasOwn(heap, "A", "x")
  /\ heap' = [heap EXCEPT !.objs["A"]["x"] = Binding("x"), !.binds["x"] = Val(v)]

\* __vite_ssr_exportAll__(dep), the transform of `export * from`
BodyExportAll ==
  /\ heap.pc = "body" /\ ~heap.applied
  /\ heap.marked
  /\ heap' = [ssrExportAll(heap, "A", "B") EXCEPT
                !.applied = TRUE,
                !.keysAt = EnumKeys(heap, "B") \ {"default"},
                !.defaultAt = heap.objs["A"]["default"]]

\* The body of A is over: the export map is completed and the object frozen.
BodyDone ==
  /\ heap.pc = "body"
  /\ heap' = [Synthesize(heap, "A") EXCEPT !.pc = "done"]

\* nodeRequire wraps the raw exports B.
Require ==
  /\ heap.pc # "off"
  /\ ~heap.wrapper.on
  /\ heap' = [heap EXCEPT !.wrapper = Wrap(heap, "B")]

\* The dependency goes on after A got hold of it: a binding is assigned, ...
DepAssign(v) ==
  /\ heap.pc # "off"
  /\ HasOwn(heap, "B", "foo")
  /\ heap.binds["foo"] # Val(v)
  /\ heap' = [heap EXCEPT !.binds["foo"] = Val(v)]

\* ... an export is defined that it did not have yet (a stub whose body is
\* still running), ...
DepDefine ==
  /\ heap.pc # "off"
  /\ ~HasOwn(heap, "B", "foo")
  /\ heap' = [heap EXCEPT !.objs["B"]["foo"] = Binding("foo"), !.binds["foo"] = Val("2")]

\* ... or its default is assigned (module.exports.default = v).
DepSetDefault(v) ==
  /\ heap.pc # "off"
  /\ heap.objs["B"]["default"] # Data(Val(v), TRUE)
  /\ heap' = [heap EXCEPT !.objs["B"]["default"] = Data(Val(v), TRUE)]

LoaderIdleTables ==
  UNCHANGED <<code, absent, mods, ssrModules, closures, pendingModules,
              pendingImports, runs, dyns, reqs, hist>>

\* ---------------------------------------------------- injectSourcesContent
\* The entries map.sources can hold: two plain names and the escaped
\* spelling of the first.
SourceNames == {"x", "y", "%78"}

\* decodeURI(sourcePath)
decodeURI(name) == IF name = "%78" THEN "x" ELSE name

\* The directories a source path is read from: the real path of the source
\* root, or the working directory of the process for an unresolved path.
SourceRoot == "sourceRoot"

Cwd == "cwd"

NoPath == <<NoUrl, NoUrl>>

\* path.resolve(sourceRoot, sourcePath), skipped for a virtual file
SourcePath(isVirtual, name) ==
  IF isVirtual THEN <<Cwd, decodeURI(name)>> ELSE <<SourceRoot, decodeURI(name)>>

Paths == {SourceRoot, Cwd} \X {"x", "y"}

\* What fs.readFile(path, 'utf-8') yields for a readable file.
Content(path) == <<"content of", path>>

\* An index of sourcesContent never assigned.
Hole == <<"hole", NoPath>>

NoFsError == [kind |-> "none", path |-> NoPath]

\* new Error(`Sourcemap for "${file}" has a non-existent source: "${sourcePath}"`)
NonExistentSource(path) == [kind |-> "non-existent source", path |-> path]

\* The error of fs.realpath other than ENOENT.
RealpathError == [kind |-> "EACCES", path |-> NoPath]

NoSourcemap ==
  [pc |-> "idle", sources |-> << >>, files |-> {}, root |-> "found", isVirtual |-> FALSE,
   sourcesContent |-> << >>, pending |-> {}, e |-> NoFsError]

OnlySourcemap ==
  /\ UNCHANGED <<resolution, heap>>
  /\ UNCHANGED <<code, absent, mods, ssrModules, closures, pendingModules,
                 pendingImports, runs, dyns, reqs, hist>>

\* try { sourceRoot = await fs.realpath(...) } catch (e) { if (e.code !== 'ENOENT') throw e;
\* isVirtual = true }; map.sourcesContent = []; every source starts its read.
Realpath ==
  /\ sourcemap.pc = "realpath"
  /\ sourcemap' =
       IF sourcemap.root = "EACCES"
       THEN [sourcemap EXCEPT !.pc = "err", !.e = RealpathError]
       ELSE [sourcemap EXCEPT !.pc = "reading",
                              !.isVirtual = (sourcemap.root = "ENOENT"),
                              !.sourcesContent = [i \in DOMAIN sourcemap.sources |-> Hole],
                              !.pending = DOMAIN sourcemap.sources]
  /\ OnlySourcemap

\* (mutant: the content is appended in the order the reads complete)
StoreContentPush(sc, i, v) ==
  [sc EXCEPT ![CHOOSE k \in DOMAIN sc : sc[k] = Hole /\ \A j \in 1 .. (k - 1) : sc[j] # Hole] = v]

\* map.sourcesContent[i] = await fs.readFile(sourcePath, 'utf-8')
StoreContent(sc, i, v) == [sc EXCEPT ![i] = v]

\* The read of source i completes.
ReadDone(i) ==
  /\ i \in sourcemap.pending
  /\ SourcePath(sourcemap.isVirtual, sourcemap.sources[i]) \in sourcemap.files
  /\ sourcemap' = [sourcemap EXCEPT
        !.pending = @ \ {i},
        !.sourcesContent = StoreContent(@, i, Content(SourcePath(sourcemap.isVirtual, sourcemap.sources[i])))]
  /\ OnlySourcemap

\* The read of source i fails: the callback throws, and Promise.all rejects
\* with the first error thrown.
ReadFail(i) ==
  /\ i \in sourcemap.pending
  /\ SourcePath(sourcemap.isVirtual, sourcemap.sources[i]) \notin sourcemap.files
  /\ sourcemap' =
       IF sourcemap.pc = "reading"
       THEN [sourcemap EXCEPT !.pending = @ \ {i}, !.pc = "err",
               !.e = NonExistentSource(SourcePath(sourcemap.isVirtual, sourcemap.sources[i]))]
       ELSE [sourcemap EXCEPT !.pending = @ \ {i}]
  /\ OnlySourcemap

\* Promise.all fulfils when every read has completed.
ReadsSettled ==
  /\ sourcemap.pc = "reading"
  /\ sourcemap.pending = {}
  /\ sourcemap' = [sourcemap EXCEPT !.pc = "ok"]
  /\ OnlySourcemap

LoaderIdle ==
  UNCHANGED <<code, absent, mods, ssrModules, closures, pendingModules,
              pendingImports, runs, dyns, reqs, hist, resolution, sourcemap>>

\* -------------------------------------------------------- ssrDynamicImport
\* Strings are sequences of characters.
Chars == {"/", ".", "a"}

NoResolution == [url |-> << >>, dep |-> << >>, out |-> << >>, done |-> FALSE]

\* The part of s before index i (String.prototype.slice(0, i), i counted from 1).
Before(s, i) == SubSeq(s, 1, i - 1)

\* (mutant: the last segment of the URL is kept)
dirnameKeep(p) == p

\* path.dirname (posix): scanning from the end, the first slash after a
\* character that is not a slash ends the directory; the first character
\* is not scanned.
dirname(p) ==
  IF p = << >> THEN <<".">>
  ELSE LET ends == { i \in 2 .. Len(p) : p[i] = "/" /\ \E j \in (i + 1) .. Len(p) : p[j] # "/" }
           root == p[1] = "/"
       IN IF ends = {} THEN (IF root THEN <<"/">> ELSE <<".">>)
          ELSE LET end == CHOOSE i \in ends : \A j \in ends : j <= i
               IN IF root /\ end = 2 THEN <<"/", "/">> ELSE Before(p, end)

\* The segments of s between slashes (empty segments included).
RECURSIVE Split(_)
Split(s) ==
  IF s = << >> THEN << << >> >>
  ELSE LET rest == Split(Tail(s))
       IN IF Head(s) = "/" THEN << << >> >> \o rest
          ELSE << <<Head(s)>> \o Head(rest) >> \o Tail(rest)

\* normalizeString(path, false): empty and '.' segments are dropped, '..'
\* removes the segment before it, or nothing at the root.
RECURSIVE Normalize(_, _)
Normalize(segs, acc) ==
  IF segs = << >> THEN acc
  ELSE LET h == Head(segs)
       IN IF h = << >> \/ h = <<".">> THEN Normalize(Tail(segs), acc)
          ELSE IF h = <<".", ".">>
               THEN Normalize(Tail(segs), IF acc = << >> THEN acc ELSE Before(acc, Len(acc)))
               ELSE Normalize(Tail(segs), Append(acc, h))

RECURSIVE Join(_)
Join(segs) ==
  IF segs = << >> THEN << >>
  ELSE IF Len(segs) = 1 THEN Head(segs)
  ELSE Head(segs) \o <<"/">> \o Join(Tail(segs))

\* path.posix.resolve(dir, dep) for an absolute dir and a relative dep:
\* `${dir}/${dep}/` normalized, behind a slash.
resolve(dir, dep) == <<"/">> \o Join(Normalize(Split(dir \o <<"/">> \o dep \o <<"/">>), << >>))

\* if (dep[0] === '.') dep = path.posix.resolve(path.dirname(url), dep)
ssrDynamicImportDep(url, dep) ==
  IF dep # << >> /\ dep[1] = "." THEN resolve(dirname(url), dep) ELSE dep

\* ssrDynamicImport(dep) in the module of URL url computes the specifier it
\* hands to ssrImport (observed once, before the loader is called).
DynamicResolve(url, dep) ==
  /\ ~resolution.done
  /\ \A i \in DOMAIN reqs : reqs[i].st = "idle"
  /\ resolution' = [url |-> url, dep |-> dep, out |-> ssrDynamicImportDep(url, dep), done |-> TRUE]
  /\ UNCHANGED sourcemap
  /\ UNCHANGED heap
  /\ LoaderIdleTables

\* ------------------------------------------------------------ specification
Step ==
  \/ \E r \in Slots :
       \/ EntryCached(r) \/ EntryTransform(r) \/ EntryPublish(r)
       \/ TransformDone(r) \/ TransformNull(r)
       \/ BodyImport(r) \/ BodyImportCycle(r) \/ ImportOk(r) \/ ImportErr(r)
       \/ BodyDynamic(r) \/ BodyThrow(r) \/ BodyEnd(r)
       \/ CatchHandler(r) \/ ThenHandler(r)
  \/ \E t \in dyns : DynOk(t) \/ DynErr(t)

LoaderTables(warm) ==
  /\ mods = [u \in URLs |-> IF u \in warm THEN [NullMod EXCEPT !.ssrTransformResult = TRUE] ELSE NullMod]
  /\ ssrModules = <<>>
  /\ closures = <<>>
  /\ pendingModules = [u \in URLs |-> 0]
  /\ pendingImports = [u \in URLs |-> 0]
  /\ runs = [s \in Slots |-> FreeRun]
  /\ dyns = {}
  /\ reqs = [i \in 1 .. MaxReq |-> IdleReq]
  /\ hist = [starts |-> [u \in URLs |-> 0], xform |-> [u \in URLs |-> 0],
             body |-> [u \in URLs |-> 0], inval |-> 0, logged |-> {}, unrewritten |-> {},
             done |-> [u \in URLs |-> 0], left |-> {},
             invAt |-> [u \in URLs |-> NoInval]]

InitTables(warm) ==
  /\ heap = NoHeap
  /\ resolution = NoResolution
  /\ sourcemap = NoSourcemap
  /\ LoaderTables(warm)

\* The module graphs of the general specification: /a.js and /b.js hold any
\* body of up to MaxBody statements, /c.js is a leaf that loads (with or
\* without a transform result cached beforehand), raises, or has no transform
\* result.  The graphs are symmetric in /a.js and /b.js, so the first
\* top-level call is for /a.js or /c.js.
Leaves == {<<>>, << <<"throw", NoUrl>> >>}

Init ==
  /\ code \in { g \in [URLs -> SeqsUpTo(Ops, MaxBody)] : g["/c.js"] \in Leaves }
  /\ absent \in {{}, {"/c.js"}}
  /\ absent # {} => code["/c.js"] = <<>>
  /\ \E warm \in {{}, {"/c.js"}} :
        /\ warm # {} => (absent = {} /\ code["/c.js"] = <<>>)
        /\ InitTables(warm)

Requests == \E i \in 1 .. MaxReq, u \in URLs : (i = 1 => u # "/b.js") /\ Request(i, u)

Next ==
  \/ Requests
  \/ Step

\* General specification: top-level calls at any moment, bodies with static
\* imports, dynamic imports and raises, transform failures.
Spec == Init /\ [][Next]_vars

\* The event loop runs every queued continuation.
SpecFair == Spec /\ WF_vars(Step)

\* The same with external invalidation of records, on the graphs where /b.js
\* is a leaf or imports /a.js and /c.js is a leaf that does not raise.
InitInval ==
  /\ Init
  /\ code["/b.js"] \in {<<>>, << <<"imp", "/a.js">> >>}
  /\ code["/c.js"] = <<>>

NextInval ==
  \/ Requests
  \/ \E u \in URLs : Invalidate(u)
  \/ Step

SpecInval == InitInval /\ [][NextInval]_vars

\* Static specification: every graph of three modules with up to MaxStatic
\* static imports each, a transform collaborator that always answers, and one
\* top-level call (for /a.js; the graphs are symmetric in the three URLs).
StaticStep ==
  \E r \in Slots :
    \/ EntryCached(r) \/ EntryTransform(r) \/ TransformDone(r)
    \/ BodyImport(r) \/ BodyImportCycle(r) \/ ImportOk(r)
    \/ BodyEnd(r) \/ ThenHandler(r)

Imports(g, u) == { g[u][k][2] : k \in DOMAIN g[u] }

NoSelfImport(g) == \A u \in URLs : u \notin Imports(g, u)

InitStatic ==
  /\ code \in [URLs -> SeqsUpTo(StaticOps, MaxStatic)]
  /\ absent = {}
  /\ InitTables({})

NextStatic ==
  \/ Request(1, "/a.js")
  \/ StaticStep

SpecStatic == InitStatic /\ [][NextStatic]_vars

\* The event loop runs every queued continuation: a step that stays possible
\* is eventually taken.
SpecStaticFair == SpecStatic /\ WF_vars(NextStatic)

\* Concurrent specification: graphs of static imports without self-imports,
\* and top-level calls for different modules issued at any moment.
InitConc ==
  /\ code \in { g \in [URLs -> SeqsUpTo(StaticOps, MaxBody)] : NoSelfImport(g) }
  /\ absent = {}
  /\ InitTables({})

NextConc ==
  \/ \E i \in 1 .. MaxReq, u \in URLs :
        /\ \A j \in 1 .. MaxReq : reqs[j].url # u
        /\ Request(i, u)
  \/ StaticStep

SpecConc == InitConc /\ [][NextConc]_vars

\* Dynamic specification: /a.js holds up to MaxStatic static or dynamic
\* imports of the other modules, /b.js and /c.js up to MaxBody (/c.js imports
\* nothing but /a.js), nothing fails, there is one top-level call and the
\* record of /a.js is invalidated externally.
DynStep ==
  \/ \E r \in Slots :
       \/ EntryCached(r) \/ EntryTransform(r) \/ TransformDone(r)
       \/ BodyImport(r) \/ BodyImportCycle(r) \/ ImportOk(r)
       \/ BodyDynamic(r) \/ BodyEnd(r) \/ ThenHandler(r)
  \/ \E t \in dyns : DynOk(t)

ImportOps == {"imp", "dyn"} \X URLs

InitDyn ==
  /\ code \in { g \in [URLs -> SeqsUpTo(ImportOps, MaxStatic)] :
                  /\ NoSelfImport(g)
                  /\ Len(g["/b.js"]) <= MaxBody
                  /\ Len(g["/c.js"]) <= MaxBody
                  /\ Imports(g, "/c.js") \subseteq {"/a.js"} }
  /\ absent = {}
  /\ InitTables({})

NextDyn ==
  \/ Request(1, "/a.js")
  \/ Invalidate("/a.js")
  \/ DynStep

SpecDyn == InitDyn /\ [][NextDyn]_vars

\* External specification: /a.js holds up to MaxStatic static imports of
\* /b.js or of packages, /b.js up to MaxBody imports of /a.js or of packages,
\* one package resolves and one does not, top-level calls at any moment.
ExtStep ==
  \E r \in Slots :
    \/ EntryCached(r) \/ EntryTransform(r) \/ TransformDone(r)
    \/ BodyImport(r) \/ BodyImportCycle(r) \/ ImportOk(r) \/ ImportErr(r)
    \/ BodyExternal(r) \/ BodyExternalMissing(r)
    \/ BodyEnd(r) \/ CatchHandler(r) \/ ThenHandler(r)

InitExt ==
  /\ code \in { g \in [URLs -> SeqsUpTo({"imp"} \X (URLs \cup Packages), MaxStatic)] :
                  /\ Imports(g, "/a.js") \subseteq {"/b.js"} \cup Packages
                  /\ Imports(g, "/b.js") \subseteq {"/a.js"} \cup Packages
                  /\ Len(g["/b.js"]) <= MaxBody
                  /\ g["/c.js"] = << >> }
  /\ absent = {}
  /\ InitTables({})

NextExt ==
  \/ \E i \in 1 .. MaxReq, u \in {"/a.js", "/b.js"} : Request(i, u)
  \/ ExtStep

SpecExt == InitExt /\ [][NextExt]_vars

\* Resolution specification: ssrDynamicImport from its first statement on.
\* One call of the specifier resolution for every module URL of up to MaxUrl
\* characters and every specifier of up to MaxDep characters; then the loader
\* on graphs where /a.js holds up to MaxStatic dynamic imports and /b.js a
\* dynamic or static import back, or a static import of /c.js.
ModuleUrls == { u \in SeqsUpTo(Chars, MaxUrl) : u # << >> /\ u[1] = "/" }

Specifiers == SeqsUpTo(Chars, MaxDep)

InitResolve ==
  /\ code \in { g \in [URLs -> SeqsUpTo(ImportOps, MaxStatic)] :
                  /\ g["/a.js"] \in SeqsUpTo({"dyn"} \X {"/b.js", "/c.js"}, MaxStatic)
                  /\ g["/b.js"] \in {<< >>, << <<"dyn", "/a.js">> >>, << <<"imp", "/a.js">> >>,
                                      << <<"imp", "/c.js">> >>}
                  /\ g["/c.js"] = << >> }
  /\ absent = {}
  /\ InitTables({})

NextResolve ==
  \/ \E url \in ModuleUrls, dep \in Specifiers : DynamicResolve(url, dep)
  \/ ~resolution.done /\ Request(1, "/a.js")
  \/ DynStep

SpecResolve == InitResolve /\ [][NextResolve]_vars

\* Source map specification: one call of injectSourcesContent for every map
\* of up to MaxSources sources, every set of readable files and every outcome
\* of fs.realpath; the reads complete in any order.
InitSources ==
  /\ code = [u \in URLs |-> << >>]
  /\ absent = {}
  /\ heap = NoHeap
  /\ resolution = NoResolution
  /\ LoaderTables({})
  /\ \E srcs \in SeqsUpTo(SourceNames, MaxSources), files \in SUBSET Paths,
        root \in {"found", "ENOENT", "EACCES"} :
       sourcemap = [NoSourcemap EXCEPT !.pc = "realpath", !.sources = srcs,
                                       !.files = files, !.root = root]

NextSources ==
  \/ Realpath
  \/ \E i \in 1 .. MaxSources : ReadDone(i) \/ ReadFail(i)
  \/ ReadsSettled

SpecSources == InitSources /\ [][NextSources]_vars

\* Object specification: the functions that build and read namespace objects,
\* applied to every dependency object B with or without the exports foo and
\* default and the marker, in any order with later changes of B.
Values == { "1", "2" }

InitObjects ==
  /\ code = [u \in URLs |-> <<>>]
  /\ absent = {}
  /\ LoaderTables({})
  /\ resolution = NoResolution
  /\ sourcemap = NoSourcemap
  /\ \E x \in {Absent, Binding("dep.x")}, foo \in {Absent, Binding("foo")},
        def \in {Absent, Data(Val("1"), TRUE)}, mark \in {Absent, Data(Val("true"), FALSE)} :
       heap = [NoHeap EXCEPT
                 !.pc = "body",
                 !.objs["B"] = [EmptyObject EXCEPT !["x"] = x, !["foo"] = foo, !["default"] = def,
                                                   !["__esModule"] = mark],
                 !.binds["dep.x"] = IF x = Absent THEN Undefined ELSE Val("2"),
                 !.binds["foo"] = IF foo = Absent THEN Undefined ELSE Val("2")]

NextObjects ==
  \/ BodyMark /\ LoaderIdle
  \/ \E v \in Values : BodySetDefault(v) /\ LoaderIdle
  \/ \E v \in Values : BodyDefine(v) /\ LoaderIdle
  \/ BodyExportAll /\ LoaderIdle
  \/ BodyDone /\ LoaderIdle
  \/ Require /\ LoaderIdle
  \/ \E v \in Values : DepAssign(v) /\ LoaderIdle
  \/ DepDefine /\ LoaderIdle
  \/ \E v \in Values : DepSetDefault(v) /\ LoaderIdle

SpecObjects == InitObjects /\ [][NextObjects]_vars

\* ================================================================ properties
ReqIds == 1 .. MaxReq

Issued(j) == reqs[j].st # "idle"

\* Two top-level calls for the same URL that were served by the same load:
\* no instantiateModule call for the URL was started between them.
SameLoad(i, j) ==
  /\ i # j /\ Issued(i) /\ Issued(j)
  /\ reqs[i].url = reqs[j].url
  /\ reqs[i].gen = reqs[j].gen

\* C1 (Dedup): ssrLoadModule calls for one URL made while a load of that URL
\* is in flight (pendingModules holds an entry for it) start no new
\* instantiateModule run, and all calls served by one load settle together
\* with the identical namespace object.
C1_Dedup ==
  /\ [](\A i, j \in ReqIds : SameLoad(i, j) =>
          /\ reqs[i].st = reqs[j].st
          /\ reqs[i].val = reqs[j].val)
  /\ [][\A u \in URLs : pendingModules[u] # 0 => hist'.starts[u] = hist.starts[u]]_vars

C1_Witness ==
  \E i, j \in ReqIds :
    /\ SameLoad(i, j)
    /\ reqs[i].st = "ok" /\ reqs[j].st = "ok"
    /\ reqs[i].val = reqs[j].val /\ reqs[i].val # 0
    /\ hist.starts[reqs[i].url] = 1

\* C6 (Freeze invariant): every namespace a top-level ssrLoadModule call
\* resolved to is frozen.
C6_ResolvedFrozen ==
  \A j \in ReqIds : reqs[j].st = "ok" => ssrModules[reqs[j].val].frozen

\* C7 (Clean retry after failure): no top-level ssrLoadModule call resolves to
\* the namespace object left over from an attempt that failed.
C7_CleanRetry ==
  \A j \in ReqIds : reqs[j].st = "ok" => reqs[j].val \notin hist.left

\* C8 (One engine run per URL): at most one instantiateModule run is active
\* (started and not settled) for any URL.
C8_OneRunPerUrl ==
  \A r, s \in Slots :
    (r # s /\ IsActive(runs[r]) /\ IsActive(runs[s])) => runs[r].url # runs[s].url

\* An active run awaited at once by a top-level call and by an import.
C8_Witness ==
  \E r \in Slots :
    /\ IsActive(runs[r])
    /\ \E j \in ReqIds : reqs[j].st = "wait" /\ reqs[j].aw = r
    /\ \/ \E s \in Slots : runs[s].pc = "await" /\ runs[s].aw = r /\ s # r
       \/ \E t \in dyns : t.st = "await" /\ t.aw = r /\ closures[t.clo].url # runs[r].url

\* C9 (Idempotent re-load): while done[u] holds (a top-level call for u
\* resolved and u was not invalidated since the producing run started), a
\* top-level call for u that settles resolves to that same namespace, and
\* neither the transform collaborator is invoked for u nor u's body executed.
C9_Idempotent ==
  [][ /\ \A j \in ReqIds :
           ( /\ reqs[j].st \in {"idle", "wait"}
             /\ reqs'[j].st \in {"ok", "err"}
             /\ hist.done[reqs'[j].url] # 0 )
           => (reqs'[j].st = "ok" /\ reqs'[j].val = hist.done[reqs'[j].url])
      /\ \A u \in URLs :
           hist.done[u] # 0 =>
             (hist'.xform[u] = hist.xform[u] /\ hist'.body[u] = hist.body[u]) ]_vars

\* Two calls for one URL, the second issued after the load serving the first
\* was over, resolved to the same namespace.
C9_Witness ==
  \E i, j \in ReqIds :
    /\ reqs[i].st = "ok" /\ reqs[j].st = "ok"
    /\ reqs[i].url = reqs[j].url
    /\ reqs[i].gen < reqs[j].gen
    /\ reqs[i].val = reqs[j].val
    /\ hist.done[reqs[i].url] = reqs[i].val
    /\ hist.xform[reqs[i].url] = 1 /\ hist.body[reqs[i].url] = 1

\* C10 (Invalidation), as claimed: a top-level call for u issued after u's
\* record was invalidated resolves to a namespace created after the
\* invalidation, and the transform collaborator was invoked for u after it.
FreshAfterInvalidation(j) ==
  /\ reqs[j].val > reqs[j].inv.n
  /\ hist.xform[reqs[j].url] > reqs[j].inv.x

Stuck == (\E j \in ReqIds : reqs[j].st = "wait") /\ ~ENABLED StaticStep

\* /a.js and /b.js are two modules whose static imports are each other.
MutualPair(g) == Imports(g, "/a.js") = {"/b.js"} /\ Imports(g, "/b.js") = {"/a.js"}

\* C2 (Cycle safety): when /a.js and /b.js import each other statically, the
\* load of /a.js eventually resolves, it never fails, no body runs twice, and
\* once it has resolved the body of /a.js and of /b.js have run once each and
\* every reference to /a.js that /b.js captured
\* is the frozen namespace the load resolved to, whose export reads the final
\* value.
C2_CycleSafety ==
  /\ MutualPair(code) ~> (reqs[1].st = "ok")
  /\ [](MutualPair(code) =>
          /\ reqs[1].st # "err"
          /\ hist.body["/a.js"] <= 1 /\ hist.body["/b.js"] <= 1
          /\ reqs[1].st = "ok" =>
               /\ hist.body["/a.js"] = 1 /\ hist.body["/b.js"] = 1
               /\ ssrModules[reqs[1].val].frozen
               /\ ReadExport(reqs[1].val, "x") = 1
               /\ ReadExport(mods["/b.js"].ssrModule, "x") = 1
               /\ \A n \in DOMAIN closures : \A p \in closures[n].got :
                    (closures[n].url = "/b.js" /\ p[1] = "/a.js") => p[2] = reqs[1].val)

\* The load of /a.js resolved after /b.js captured the stub of /a.js.
C2_Witness ==
  /\ MutualPair(code)
  /\ reqs[1].st = "ok"
  /\ <<"/a.js", reqs[1].val>> \in closures[mods["/b.js"].ssrModule].got
  /\ <<"/b.js", mods["/b.js"].ssrModule>> \in closures[reqs[1].val].got
  /\ ReadExport(reqs[1].val, "x") = 1

\* C3 (Termination on arbitrary graphs): on every graph of static imports,
\* here even without a module that imports itself, a single top-level load
\* never stops before it settles.
C3_Terminates == NoSelfImport(code) => ~Stuck

\* C5 (Direct self-cycle): no run ever awaits the in-flight promise of its
\* own URL; an import of the module's own URL resolves without waiting.
C5_SelfImport ==
  \A r \in Slots : runs[r].pc = "await" => runs[runs[r].aw].url # runs[r].url

\* C4 (No deadlock under concurrent load): with top-level loads of different
\* modules of a graph without self-imports, no call is left waiting in a state
\* where the loader can take no step.
C4_NoDeadlock ==
  (\E j \in ReqIds : reqs[j].st = "wait") => ENABLED StaticStep

\* The runs a caller of run r waits for through awaits of static imports.
RECURSIVE ChainFrom(_, _)
ChainFrom(r, n) ==
  IF r = 0 \/ n = 0 THEN {}
  ELSE {r} \cup (IF runs[r].pc = "await" THEN ChainFrom(runs[r].aw, n - 1) ELSE {})

Chain(j) == IF reqs[j].st = "wait" THEN ChainFrom(reqs[j].aw, Cardinality(Slots)) ELSE {}

\* The load of a dependency the top-level call j waits for, directly or
\* through static imports, has rejected with error e.
AwaitsFailure(j, e) == \E s \in Chain(j) : runs[s].pc = "readyErr" /\ runs[s].e = e

Errors == { runs[s].e : s \in Slots } \ {NoError}

\* C11 (Failure propagation): when a run rejects, every continuation awaiting
\* its promise (top-level calls and static imports) is woken with that same
\* error object, a run woken by a rejection rejects with the object it
\* received, and a top-level call that waits, directly or through static
\* imports, for a failed dependency never resolves and eventually rejects
\* with that error, message unchanged.
C11_FailurePropagation ==
  /\ [][ /\ \A r \in Slots :
             (runs[r].pc # "err" /\ runs'[r].pc = "err") =>
               /\ runs[r].pc = "readyErr" => runs'[r].e = runs[r].e
               /\ \A s \in Slots : (runs[s].pc = "await" /\ runs[s].aw = r) =>
                     (runs'[s].pc = "readyErr" /\ runs'[s].e = runs'[r].e)
               /\ \A j \in ReqIds : (reqs[j].st = "wait" /\ reqs[j].aw = r) =>
                     (reqs'[j].st = "err" /\ reqs'[j].e = runs'[r].e)
          /\ \A j \in ReqIds : \A e \in Errors :
               (AwaitsFailure(j, e) /\ reqs'[j].st # "wait") =>
                 (reqs'[j].st = "err" /\ reqs'[j].e = e /\ Message(reqs'[j].e) = Message(e)) ]_vars
  /\ \A j \in ReqIds :
       (\E e \in Errors : AwaitsFailure(j, e)) ~> (reqs[j].st = "err")

\* A top-level call rejected with the error a dependency two static imports
\* below it raised.
C11_Witness ==
  \E j \in ReqIds :
    /\ reqs[j].st = "err"
    /\ reqs[j].e.url # reqs[j].url
    /\ \E u \in URLs : u \notin {reqs[j].url, reqs[j].e.url}
          /\ <<u, reqs[j].e>> \in hist.logged
          /\ <<reqs[j].url, reqs[j].e>> \in hist.logged

\* C12 (In-flight cleanup): pendingModules holds the entry of a URL during
\* the whole time its run is active; an entry belongs to a load whose run or
\* cleanup handlers are still due, so with no load left the table is empty;
\* and the entries whose run has settled are always eventually all removed.
C12_InFlightCleanup ==
  /\ [](\A r \in Slots : IsActive(runs[r]) => pendingModules[runs[r].url] = r)
  /\ [](\A u \in URLs : pendingModules[u] # 0 =>
          (runs[pendingModules[u]].pc # "free" /\ runs[pendingModules[u]].url = u))
  /\ []<>(\A u \in URLs : pendingModules[u] # 0 => ~IsSettled(runs[pendingModules[u]]))

\* A load that failed and a load that succeeded are over, and the table is empty.
C12_Witness ==
  /\ \E i, j \in ReqIds : reqs[i].st = "err" /\ reqs[j].st = "ok" /\ reqs[i].url # reqs[j].url
  /\ \A r \in Slots : runs[r].pc = "free"
  /\ \A u \in URLs : pendingModules[u] = 0

\* C13 (Failure reporting): the error of every top-level call that rejected
\* was reported to the logger by the run of the called module.
C13_FailureLogged ==
  \A j \in ReqIds : reqs[j].st = "err" => <<reqs[j].url, reqs[j].e>> \in hist.logged

\* C14 (Absent transform is fatal and leaves no trace): for a module whose
\* transform has no result, the body is never executed, the record never
\* holds an instance, and every top-level call for it never resolves and
\* eventually rejects with the loader's error, whose message names the URL.
C14_AbsentTransform ==
  /\ [](\A u \in absent :
          /\ hist.body[u] = 0
          /\ mods[u].ssrModule = 0
          /\ \A n \in DOMAIN ssrModules : ssrModules[n].url # u
          /\ \A j \in ReqIds : (reqs[j].url = u /\ reqs[j].st # "wait") =>
                /\ reqs[j].st = "err"
                /\ reqs[j].e.kind = "load"
                /\ Message(reqs[j].e) = <<"failed to load module for ssr: ", u>>)
  /\ \A j \in ReqIds :
       (reqs[j].st = "wait" /\ reqs[j].url \in absent) ~> (reqs[j].st = "err")

\* A top-level call for a module without transform result rejected after the
\* transform collaborator was asked.
C14_Witness ==
  \E j \in ReqIds :
    /\ reqs[j].st = "err"
    /\ reqs[j].url \in absent
    /\ hist.xform[reqs[j].url] >= 1
    /\ \A r \in Slots : runs[r].url # reqs[j].url

\* C15 (Re-export-all): after ssrExportAll(B) ran on A, A has every name that
\* was an enumerable key of B at the call other than default, a read of it
\* yields what the same read of B yields now, and the default of A is what
\* it was before the call.
C15_ExportAll ==
  heap.applied =>
    /\ "default" \notin heap.keysAt
    /\ \A k \in heap.keysAt :
         HasOwn(heap, "A", k) /\ GetProp(heap, "A", k) = GetProp(heap, "B", k)
    /\ heap.objs["A"]["default"] = heap.defaultAt

\* B exports foo and a default, foo was assigned after the call: A reads
\* the new value of foo and has no default.
C15_Witness ==
  /\ heap.applied
  /\ HasOwn(heap, "B", "default")
  /\ heap.binds["foo"] = Val("1")
  /\ GetProp(heap, "A", "foo") = Val("1")
  /\ ~HasOwn(heap, "A", "default")

\* C16 (Export-map synthesis): the namespace of a finished body carries the
\* marker; its default is the namespace itself exactly when the body neither
\* set the marker nor defined a default; a body that set the marker and
\* defined no default leaves default undefined; the export x reads its binding.
C16_ExportMap ==
  heap.pc = "done" =>
    /\ Truthy(GetProp(heap, "A", "__esModule"))
    /\ (GetProp(heap, "A", "default") = ObjRef("A")) <=> (~heap.marked /\ ~heap.defaulted)
    /\ (heap.marked /\ ~heap.defaulted) => GetProp(heap, "A", "default") = Undefined
    /\ (HasOwn(heap, "A", "x") /\ "x" \notin heap.keysAt) => GetProp(heap, "A", "x") = heap.binds["x"]

\* The transform of `export const x = 1` ran: marker, x === 1, no default.
C16_Witness ==
  /\ heap.pc = "done"
  /\ heap.marked /\ ~heap.defaulted /\ ~heap.applied
  /\ GetProp(heap, "A", "x") = Val("1")
  /\ GetProp(heap, "A", "default") = Undefined

\* C17 (Interop shim): the wrapper's default is fixed when nodeRequire wraps
\* the raw exports r: r.default when r is marked, r itself otherwise; a read
\* of any other property through the wrapper yields what r yields now.
C17_InteropShim ==
  /\ [][ (~heap.wrapper.on /\ heap'.wrapper.on) =>
            heap'.wrapper.defaultExport =
              IF Truthy(GetProp(heap, "B", "__esModule")) THEN GetProp(heap, "B", "default")
              ELSE ObjRef("B") ]_vars
  /\ [][ heap.wrapper.on => heap'.wrapper = heap.wrapper ]_vars
  /\ [](heap.wrapper.on =>
          /\ ProxyGet(heap, "default") = heap.wrapper.defaultExport
          /\ \A p \in Keys \ {"default"} : ProxyGet(heap, p) = GetProp(heap, "B", p))

\* Unmarked raw exports were wrapped and then changed: default is the raw
\* exports object, foo reads the new value.
C17_Witness ==
  /\ heap.wrapper.on
  /\ ~HasOwn(heap, "B", "__esModule")
  /\ HasOwn(heap, "B", "default")
  /\ ProxyGet(heap, "default") = ObjRef("B")
  /\ heap.binds["foo"] = Val("1")
  /\ ProxyGet(heap, "foo") = Val("1")

\* The dependency whose load the run r is suspended on.
AwaitedDep(r) == CurOp(r)[2]

\* pendingImports.get(u) holds d
Tracked(u, d) ==
  /\ pendingImports[u] # 0
  /\ d \in Range(closures[pendingImports[u]].pendingDeps)

\* C18 (Pending-dependency tracking): while a module is suspended in
\* ssrImport on the load of a dependency that is not on its ancestor path,
\* pendingImports has an entry for the module that contains the dependency.
C18_PendingTracked ==
  \A r \in Slots :
    (runs[r].pc = "await" /\ ~IsCircular(closures[runs[r].clo].urlStack, AwaitedDep(r)))
      => Tracked(runs[r].url, AwaitedDep(r))

\* C19 (Pending-dependency cleanup): when no load and no dynamic import is
\* left, pendingImports is empty.
C19_PendingCleared ==
  ((\A r \in Slots : runs[r].pc = "free") /\ dyns = {}) =>
    \A u \in URLs : pendingImports[u] = 0

\* C20 (Ancestor short-circuit): no module is ever suspended on the load of
\* a URL that is on its own ancestor path; stated for graphs in which no
\* module imports itself.
C20_AncestorShortCircuit ==
  NoSelfImport(code) =>
    \A r \in Slots :
      runs[r].pc = "await" => ~IsCircular(closures[runs[r].clo].urlStack, AwaitedDep(r))

InBody(run) == run.pc \in {"body", "await", "readyOk", "readyErr"}

\* C21 (Stub publication order and identity): a run that is past the
\* creation of its stub has the stub on its module's record from before the
\* body started; a dependency is requested only by a module whose record
\* holds its stub; and the run resolves to that very stub, frozen.
C21_StubPublished ==
  /\ [](\A r \in Slots :
          /\ InBody(runs[r]) =>
                /\ runs[r].clo # 0
                /\ mods[runs[r].url].ssrModule = runs[r].clo
                /\ ssrModules[runs[r].clo].url = runs[r].url
          /\ (runs[r].pc # "free" /\ runs[r].stack # <<>>) =>
                mods[runs[r].stack[Len(runs[r].stack)]].ssrModule # 0
          /\ (runs[r].pc = "ok" /\ runs[r].clo # 0) =>
                /\ runs[r].val = runs[r].clo
                /\ ssrModules[runs[r].val].frozen
                /\ mods[runs[r].url].ssrModule = runs[r].val)
  /\ [][\A u \in URLs : hist'.body[u] # hist.body[u] => mods[u].ssrModule # 0]_vars

\* A load resolved to the object that a module of its cycle captured while
\* the load was still running.
C21_Witness ==
  \E j \in ReqIds : \E n \in DOMAIN closures :
    /\ reqs[j].st = "ok"
    /\ n > reqs[j].val
    /\ <<reqs[j].url, reqs[j].val>> \in closures[n].got
    /\ <<closures[n].url, n>> \in closures[reqs[j].val].got

\* C22 (Best-effort stack rewriting): when the rewriter throws in the catch
\* block of the run of u for error e, the run rejects with e, an error that
\* a body or the loader raised, and e is logged for u; a top-level call for
\* u that rejects then rejects with e.
C22_RewriterFailure ==
  [][\A p \in hist'.unrewritten \ hist.unrewritten :
       /\ p[2].kind \in {"body", "load"}
       /\ p \in hist'.logged
       /\ \E r \in Slots :
            /\ runs[r].url = p[1] /\ InBody(runs[r])
            /\ runs'[r].pc = "err"
            /\ runs'[r].e = p[2]
            /\ Message(runs'[r].e) = Message(p[2])
            /\ \A j \in ReqIds : (reqs[j].st = "wait" /\ reqs[j].aw = r) =>
                  (reqs'[j].st = "err" /\ reqs'[j].e = p[2])]_vars

\* The body of a module raised, the rewriter threw, and the top-level call
\* rejected with the body's error, which was logged.
C22_Witness ==
  \E j \in ReqIds :
    /\ reqs[j].st = "err"
    /\ reqs[j].e.kind = "body" /\ reqs[j].e.url = reqs[j].url
    /\ <<reqs[j].url, reqs[j].e>> \in hist.unrewritten
    /\ <<reqs[j].url, reqs[j].e>> \in hist.logged

\* The dependencies the body of run r imported before its current statement.
EarlierDeps(r) ==
  { code[runs[r].url][k][2] : k \in 1 .. (runs[r].ip - 1) }

\* The dependencies whose import has returned a value to the body.
ReturnedDeps(c) == { p[1] : p \in closures[c].got }

NamespaceOf(d) == mods[d].ssrModule

\* C23 (Sequential static imports), as claimed: when a module is at its
\* import number i+1, the load of each earlier dependency has settled (its
\* namespace is complete).
C23_EarlierSettled ==
  \A r \in Slots : InBody(runs[r]) =>
    \A d \in EarlierDeps(r) : NamespaceOf(d) # 0 /\ ssrModules[NamespaceOf(d)].frozen

\* C23 amended: when a module is at its import number i+1, the import of
\* each earlier dependency has returned its value (after its load settled, or
\* at once for a dependency seen as a cycle), nothing later was imported,
\* and the one wait of the module is for its current statement.
C23_EarlierReturned ==
  \A r \in Slots : InBody(runs[r]) =>
    /\ ReturnedDeps(runs[r].clo) = EarlierDeps(r)
    /\ \A d \in ReturnedDeps(runs[r].clo) :
         \/ ssrModules[NamespaceOf(d)].frozen
         \/ \E s \in Slots : InBody(runs[s]) /\ runs[s].url = d
    /\ runs[r].pc = "await" =>
         /\ runs[r].ip <= Len(code[runs[r].url])
         /\ runs[runs[r].aw].url = AwaitedDep(r)

\* A module waits for its second import after its first import returned the
\* unfinished namespace of a module of its cycle.
C23_Witness ==
  \E r \in Slots :
    /\ runs[r].pc = "await" /\ runs[r].ip = 2
    /\ AwaitedDep(r) # runs[r].url
    /\ \E d \in EarlierDeps(r) : d # AwaitedDep(r) /\ ~ssrModules[NamespaceOf(d)].frozen

\* C24 (Ancestor path passed by value): the path built by a run of u is the
\* path its load was requested with followed by u; a load is requested with
\* the empty path or with the path of the importing body; no step changes
\* the path of an existing body or of a requested load.
C24_PathByValue ==
  [][/\ \A c \in DOMAIN closures : closures'[c].urlStack = closures[c].urlStack
     /\ \A c \in DOMAIN closures' \ DOMAIN closures :
          \E r \in Slots :
            /\ runs[r].pc \in {"entry", "transform"}
            /\ runs'[r].clo = c
            /\ closures'[c].url = runs[r].url
            /\ closures'[c].urlStack = Append(runs[r].stack, runs[r].url)
     /\ \A s \in Slots :
          /\ (runs[s].pc # "free" /\ runs'[s].pc # "free") => runs'[s].stack = runs[s].stack
          /\ (runs[s].pc = "free" /\ runs'[s].pc # "free") =>
                \/ runs'[s].stack = << >> /\ reqs' # reqs
                \/ \E r \in Slots :
                      /\ runs[r].pc = "body" /\ runs[r].ip <= Len(code[runs[r].url])
                      /\ CurOp(r)[2] = runs'[s].url
                      /\ runs'[s].stack = closures[runs[r].clo].urlStack
                      /\ runs'[s].stack[Len(runs'[s].stack)] = runs[r].url]_vars

\* Two dynamic imports of one module overlap: both loads hold the module's
\* own path, one has built its own path from it, the other has not started.
C24_Witness ==
  \E s, t \in Slots : \E c \in DOMAIN closures :
    /\ s # t /\ runs[s].url # runs[t].url
    /\ \E d1, d2 \in dyns : d1.clo = c /\ d2.clo = c /\ d1.aw = s /\ d2.aw = t
    /\ runs[s].stack = closures[c].urlStack /\ runs[t].stack = closures[c].urlStack
    /\ runs[s].clo # 0 /\ closures[runs[s].clo].urlStack = Append(closures[c].urlStack, runs[s].url)
    /\ runs[t].pc = "entry"

NoDuplicates(s) == \A i, j \in DOMAIN s : s[i] = s[j] => i = j

\* C25 (No duplicate ancestors): the ancestor path held by an active run
\* that has built it contains each URL at most once.
C25_NoDuplicateAncestors ==
  \A r \in Slots :
    (IsActive(runs[r]) /\ runs[r].clo # 0) => NoDuplicates(closures[runs[r].clo].urlStack)

\* The run r is at a static import of a package.
AtExternal(r) ==
  /\ runs[r].pc = "body"
  /\ runs[r].ip <= Len(code[runs[r].url])
  /\ CurOp(r)[1] = "imp"
  /\ CurOp(r)[2] \in Packages

ImportsOf(u) == { code[u][k][2] : k \in DOMAIN code[u] } \cap URLs

RECURSIVE Closure(_, _)
Closure(S, n) ==
  IF n = 0 THEN S ELSE Closure(S \cup UNION { ImportsOf(u) : u \in S }, n - 1)

\* d imports m, directly or through other modules.
Reaches(d, m) == m \in Closure(ImportsOf(d), Cardinality(URLs))

\* The run r is about to take the cycle branch of ssrImport for d.
TakesCycleBranch(r, d) ==
  /\ AtOp(r, "imp") \/ AtOp(r, "dyn")
  /\ CurOp(r)[2] = d
  /\ CycleSeen(runs[r].clo, d)

\* C27 (Short-circuit soundness): when ssrImport takes the cycle branch for
\* d, a load of d is in flight, d and the importing module import each other
\* (directly or through other modules), and the record of d holds a namespace.
C27_ShortCircuitSound ==
  \A r \in Slots : \A d \in URLs :
    TakesCycleBranch(r, d) =>
      /\ pendingModules[d] # 0
      /\ Reaches(d, runs[r].url) /\ Reaches(runs[r].url, d)
      /\ ImportValue(d) # 0

\* C27, the returned value alone, for records invalidated while no load of
\* theirs is in flight: the cycle branch returns a namespace.
C27_NamespaceHeld ==
  \A r \in Slots : \A d \in URLs :
    (TakesCycleBranch(r, d) /\ (hist.invAt[d].on => hist.invAt[d].idle)) => ImportValue(d) # 0

\* C28 (Complete namespaces for non-cyclic importers): a value a static
\* import of d returned to the body of m, when d does not import m directly
\* or through other modules, is a frozen namespace.
C28_CompleteNamespace ==
  \A c \in DOMAIN closures : \A p \in closures[c].got :
    (p[1] \in URLs /\ ~Reaches(p[1], closures[c].url)) =>
      (p[2] # 0 /\ ssrModules[p[2]].frozen)

\* The segments of s that are not empty.
Segments(s) == SelectSeq(Split(s), LAMBDA g : g # << >>)

\* The URL the claim describes for a relative specifier: the segments of the
\* importing URL without the last one, followed by those of the specifier,
\* '.' and '..' applied, behind a slash.
RelativeTo(url, dep) ==
  LET dir == IF Segments(url) = << >> THEN << >> ELSE Before(Segments(url), Len(Segments(url)))
  IN <<"/">> \o Join(Normalize(dir \o Segments(dep), << >>))

\* The run r finished a dynamic import statement in this step.
DynamicImported(r) ==
  /\ AtOp(r, "dyn")
  /\ runs'[r].ip = runs[r].ip + 1

\* C29 (Dynamic import resolution): a specifier that starts with '.' becomes
\* the '/'-rooted URL that is relative to the directory of the importing URL,
\* without empty, '.' or '..' segments; any other specifier is unchanged.
\* The dynamic import returns to the body without a value (a promise); it does
\* nothing more for a dependency seen as a cycle; otherwise it appends the
\* dependency to pendingDeps, registers the array in pendingImports when it
\* holds one element, and awaits the load in flight for the dependency or
\* starts one with the body's path.
C29_DynamicImport ==
  /\ [](resolution.done =>
          LET url == resolution.url
              dep == resolution.dep
              out == resolution.out
          IN IF dep # << >> /\ dep[1] = "."
             THEN /\ out = RelativeTo(url, dep)
                  /\ out[1] = "/"
                  /\ \A i \in DOMAIN Segments(out) :
                        Segments(out)[i] \notin {<<".">>, <<".", ".">>}
                  /\ out = <<"/">> \o Join(Segments(out))
             ELSE out = dep)
  /\ [][\A r \in Slots : DynamicImported(r) =>
         LET c == runs[r].clo
             d == CurOp(r)[2]
         IN /\ runs'[r].pc = "body"
            /\ closures'[c].got = closures[c].got
            /\ CycleSeen(c, d) =>
                  /\ closures' = closures /\ pendingImports' = pendingImports
                  /\ pendingModules' = pendingModules /\ dyns' = dyns
            /\ ~CycleSeen(c, d) =>
                  /\ closures'[c].pendingDeps = Append(closures[c].pendingDeps, d)
                  /\ pendingImports' =
                        IF Len(closures'[c].pendingDeps) = 1
                        THEN [pendingImports EXCEPT ![runs[r].url] = c]
                        ELSE pendingImports
                  /\ \E t \in dyns' \ dyns : t.clo = c /\ t.dep = d
                  /\ pendingModules[d] # 0 =>
                        /\ pendingModules' = pendingModules
                        /\ hist'.starts = hist.starts
                  /\ pendingModules[d] = 0 =>
                        /\ pendingModules'[d] # 0
                        /\ runs'[pendingModules'[d]].url = d
                        /\ runs'[pendingModules'[d]].stack = closures[c].urlStack
                        /\ hist'.starts[d] = hist.starts[d] + 1]_vars

\* The specifier '..' imported from /a/a was resolved to /.
C29_Witness ==
  /\ resolution.done
  /\ resolution.url = <<"/", "a", "/", "a">>
  /\ resolution.dep = <<".", ".">>
  /\ resolution.out = <<"/">>

\* The file injectSourcesContent reads for source i.
FileOf(i) == SourcePath(sourcemap.root = "ENOENT", sourcemap.sources[i])

Unreadable == { i \in DOMAIN sourcemap.sources : FileOf(i) \notin sourcemap.files }

\* C30 (injectSourcesContent index alignment): once the call has returned,
\* every source was readable and sourcesContent[i] is the content of the
\* file of sources[i]; when the source root resolved or was missing, a call
\* that failed did so with the `non-existent source` error of a source that
\* cannot be read, a call with an unreadable source never returns and fails
\* with the first read that does, and a missing source root makes the file
\* virtual: paths are read unresolved and the call does not fail for it.
C30_SourcesContent ==
  /\ sourcemap.pc = "ok" =>
       /\ Unreadable = {}
       /\ DOMAIN sourcemap.sourcesContent = DOMAIN sourcemap.sources
       /\ \A i \in DOMAIN sourcemap.sources : sourcemap.sourcesContent[i] = Content(FileOf(i))
  /\ (sourcemap.pc = "err" /\ sourcemap.root # "EACCES") =>
       \E i \in Unreadable : sourcemap.e = NonExistentSource(FileOf(i))
  /\ (sourcemap.pc = "reading" /\ Unreadable # {}) => Unreadable \cap sourcemap.pending # {}
  /\ (sourcemap.root = "ENOENT" /\ sourcemap.pc \notin {"idle", "realpath"}) =>
       /\ sourcemap.isVirtual
       /\ sourcemap.e # RealpathError
       /\ \A i \in DOMAIN sourcemap.sources : FileOf(i)[1] = Cwd

\* Two sources naming different files, the second one escaped, were read
\* and the call returned.
C30_Witness ==
  /\ sourcemap.pc = "ok"
  /\ Len(sourcemap.sources) = 2
  /\ sourcemap.sourcesContent[1] # sourcemap.sourcesContent[2]
  /\ sourcemap.sources[2] = "%78"

====
